---- MODULE Spec2Model ----
(***************************************************************************)
(* A model of the decision layer of nebulaDefense:                         *)
(*   - ReactiveAggregator.run_aggregation  (spec: ReactiveDispatcher)      *)
(*   - DynamicAggregator.run_aggregation   (spec: RandomDispatcher)        *)
(*   - PrioritySelector.node_selection     (spec: NeighborSelector.select) *)
(* Every call of a handler is one action.  What a call did is kept in a    *)
(* trace of the calls it made, in the order of the code's statements, and  *)
(* in the value it returned or the exception that left it.                 *)
(***************************************************************************)
EXTENDS Integers, Sequences, FiniteSets, TLC

VARIABLES
    default_aggregator,   \* config.participant["aggregator_args"]["reactive_aggregator_default"]
    agg_call,             \* the last aggregation call: entry point and what its collaborators did
    agg_trace,            \* the statements with an outside effect the last aggregation call ran
    agg_result,           \* what the last aggregation call returned or raised
    agg_branch,           \* the state the last ReactiveAggregator call went to
    neighbors_list,       \* Selector.neighbors_list
    features,             \* Selector.features
    ages,                 \* Selector.ages
    selected_nodes,       \* Selector.selected_nodes
    sel_trace,            \* the log records of the node_selection call just made
    sel_result            \* what the node_selection call just made returned or raised;
                          \* both are cleared when the neighbourhood or the telemetry
                          \* changes, so they always belong to the current neighbors_list

aggVars == <<default_aggregator, agg_call, agg_trace, agg_result, agg_branch>>
selVars == <<neighbors_list, features, ages, selected_nodes, sel_trace, sel_result>>
vars == <<default_aggregator, agg_call, agg_trace, agg_result, agg_branch,
          neighbors_list, features, ages, selected_nodes, sel_trace, sel_result>>

---------------------------------------------------------------------------
(* Bounds of the model.                                                    *)

MaxAge == 2

---------------------------------------------------------------------------
(* The aggregation dispatchers.                                            *)

\* The nodes whose model updates an aggregation round may hold.
Nodes == {"n1", "n2"}

\* An opaque model update.
Updates == {0}

\* models: a mapping from the nodes that contributed to their update.
ModelSets == UNION {[S -> Updates] : S \in SUBSET Nodes}

available_aggregators_NoBulyan == <<"FedAvg", "Krum", "Median", "TrimmedMean">>

\* The five strategy classes DynamicAggregator draws from.
available_aggregators == <<"FedAvg", "Krum", "Median", "TrimmedMean", "Bulyan">>

\* The keys of ReactiveAggregator's registry.
ALGORITHM_MAP ==
    {"FedAvg", "Krum", "Median", "TrimmedMean", "Bulyan",
     "BlockchainReputation", "DynamicAggregator"}

\* Names a configuration may hold: registered ones and two that are not.
ConfigNames == {"FedAvg", "Krum", "DynamicAggregator", "Average", "NoSuchAggregator"}

Ev(kind, who, what, arg) == [kind |-> kind, who |-> who, what |-> what, arg |-> arg]

Returned(by, models) == [status |-> "returned", by |-> by, value |-> models]
Raised(exc, at) == [status |-> "raised", by |-> at, value |-> exc]
NoResult == [status |-> "none", by |-> "none", value |-> "none"]

\* A concrete strategy's run_aggregation(models): it combines the update set it
\* is given, or fails with an error of its own.
Strategy_run_aggregation(cls, models, ok) ==
    [trace |-> <<Ev("run_aggregation", cls, "models", models)>>,
     result |-> IF ok THEN Returned(cls, models) ELSE Raised("StrategyError", cls)]

\* nebulalogger.log_text(tag, text, step): the record, when the sink takes it.
\* step is engine.round, which these handlers only read; the record keeps the
\* tag and the text.
log_text(who, tag, text) == Ev("log_text", who, tag, text)

\* DynamicAggregator.run_aggregation(models, reactive_aggregator).
\*   chosen: what random.choice drew;
\*   sink: "ok" when log_text returns, "raises" when it raises, "no engine"
\*         when self.engine is None and the call cannot even be made;
\*   stratOk: whether the chosen strategy returns.
DynamicAggregator_run_aggregation(models, reactive_aggregator, chosen, sink, stratOk) ==
    LET t0 == <<Ev("logging.info", "DynamicAggregator", "Initializing Aggregation", "none"),
                Ev("super", "DynamicAggregator", "run_aggregation", models),
                Ev("random.choice", "DynamicAggregator", "chosen", chosen),
                Ev("logging.info", "DynamicAggregator", "Chosen Aggregator", chosen)>>
        tag == IF reactive_aggregator
               THEN "[ReactiveAggregator] Using DynamicAggregator: Chosen Aggregator"
               ELSE "[DynamicAggregator] Chosen Aggregator"
    IN  IF sink # "ok"
        THEN [trace |-> t0,
              result |-> Raised(IF sink = "raises" THEN "LogTextError" ELSE "AttributeError",
                                "DynamicAggregator")]
        ELSE LET s == Strategy_run_aggregation(chosen, models, stratOk)
             IN  [trace |-> t0 \o <<log_text("DynamicAggregator", tag, chosen),
                                    Ev("new", "DynamicAggregator", chosen, "config")>>
                               \o s.trace,
                  result |-> s.result]

DelegatedModels_WithoutFlagged(models, malicious_nodes) ==
    [n \in DOMAIN models \ malicious_nodes |-> models[n]]

\* Line 21 of reactiveAggregator.py: dynamic_aggregator.run_aggregation(models, ...)
\* is handed the update set the round was given; malicious_nodes plays no part.
DelegatedModels(models, malicious_nodes) == models

MaliciousDetected_MoreThanOne(malicious_nodes) == Cardinality(malicious_nodes) > 1

MaliciousDetected_Always(malicious_nodes) == Cardinality(malicious_nodes) >= 0

\* Line 15 of reactiveAggregator.py: len(malicious_nodes) > 0.
MaliciousDetected(malicious_nodes) == Cardinality(malicious_nodes) > 0

InRegistry_NoCheck(name) == TRUE

\* Lines 43-45: a name that is no key of ALGORITHM_MAP is replaced by "FedAvg".
InRegistry(name) == name \in ALGORITHM_MAP

FallbackAggregator == "FedAvg"

\* ReactiveAggregator.run_aggregation(models).
\*   rep: what engine.reputation_calculation did: [ok |-> FALSE] when it raised,
\*        [ok |-> TRUE, malicious |-> the flagged nodes] when it returned;
\*   sinkOk1: whether ReactiveAggregator's own log_text call returns;
\*   sub: the default strategy's or DynamicAggregator's behaviour
\*        [chosen, sinkOk, stratOk].
ReactiveAggregator_run_aggregation(cfg, models, rep, sinkOk1, sub) ==
    LET t0 == <<Ev("logging.info", "ReactiveAggregator", "Initializing Aggregation", "none"),
                Ev("super", "ReactiveAggregator", "run_aggregation", models),
                Ev("reputation_calculation", "ReactiveAggregator", "models", models)>>
    IN  IF ~rep.ok
        THEN [branch |-> "EVALUATING", trace |-> t0,
              result |-> Raised("ReputationError", "ReactiveAggregator")]
        ELSE IF MaliciousDetected(rep.malicious)
        THEN LET t1 == t0 \o <<Ev("logging.info", "ReactiveAggregator",
                                  "Detected Malicious Nodes", rep.malicious)>>
             IN  IF ~sinkOk1
                 THEN [branch |-> "UNDER_ATTACK", trace |-> t1,
                       result |-> Raised("LogTextError", "ReactiveAggregator")]
                 ELSE LET d == DynamicAggregator_run_aggregation(
                                   DelegatedModels(models, rep.malicious), TRUE, sub.chosen,
                                   IF sub.sinkOk THEN "ok" ELSE "raises", sub.stratOk)
                      IN  [branch |-> "UNDER_ATTACK",
                           trace |-> t1 \o <<log_text("ReactiveAggregator",
                                                "[ReactiveAggregator] Malicious nodes",
                                                rep.malicious),
                                             Ev("logging.info", "ReactiveAggregator",
                                                "Using Dynamic Aggregator", "none"),
                                             Ev("new", "ReactiveAggregator",
                                                "DynamicAggregator", "config,engine")>>
                                        \o d.trace,
                           result |-> d.result]
        ELSE LET t1 == t0 \o <<Ev("logging.info", "ReactiveAggregator",
                                  "No Malicious Nodes Detected", "none")>>
             IN  IF ~sinkOk1
                 THEN [branch |-> "CLEAN", trace |-> t1,
                       result |-> Raised("LogTextError", "ReactiveAggregator")]
                 ELSE LET t2 == t1 \o <<log_text("ReactiveAggregator",
                                           "[ReactiveAggregator] Malicious nodes",
                                           "None"),
                                        Ev("logging.info", "ReactiveAggregator",
                                           "Using Aggregator", cfg),
                                        Ev("lookup", "ReactiveAggregator", "ALGORITHM_MAP", cfg)>>
                          t3 == IF InRegistry(cfg) THEN t2
                                ELSE t2 \o <<Ev("logging.error", "ReactiveAggregator",
                                                "Invalid default aggregator", cfg)>>
                          name == IF InRegistry(cfg) THEN cfg ELSE FallbackAggregator
                      IN  IF name \notin ALGORITHM_MAP
                          \* line 46: ALGORITHM_MAP[default_aggregator] on a missing key
                          THEN [branch |-> "CLEAN", trace |-> t3,
                                result |-> Raised("KeyError", "ReactiveAggregator")]
                          ELSE IF name = "DynamicAggregator"
                          \* built without an engine (line 47): its log_text call
                          \* dereferences self.engine, which it was not given.
                          THEN LET d == DynamicAggregator_run_aggregation(
                                            models, FALSE, sub.chosen, "no engine", sub.stratOk)
                               IN  [branch |-> "CLEAN",
                                    trace |-> t3 \o <<Ev("new", "ReactiveAggregator", name, "config")>>
                                                 \o d.trace,
                                    result |-> d.result]
                          ELSE LET s == Strategy_run_aggregation(name, models, sub.stratOk)
                               IN  [branch |-> "CLEAN",
                                    trace |-> t3 \o <<Ev("new", "ReactiveAggregator", name, "config")>>
                                                 \o s.trace,
                                    result |-> s.result]

\* What engine.reputation_calculation(models) may do: raise, or flag any subset
\* of the nodes whose updates it was given.
ReputationOutcomes(models) ==
    {[ok |-> FALSE, malicious |-> {}]}
        \cup {[ok |-> TRUE, malicious |-> m] : m \in SUBSET (DOMAIN models)}

\* What the strategy below a dispatcher may do.
SubOutcomes ==
    [chosen : {available_aggregators[i] : i \in DOMAIN available_aggregators},
     sinkOk : BOOLEAN, stratOk : BOOLEAN]

NoCall == [entry |-> "none", models |-> <<>>, rep |-> [ok |-> TRUE, malicious |-> {}],
           sinkOk1 |-> TRUE,
           sub |-> [chosen |-> "FedAvg", sinkOk |-> TRUE, stratOk |-> TRUE]]

AggIdle ==
    /\ agg_call = NoCall
    /\ agg_trace = <<>>
    /\ agg_result = NoResult
    /\ agg_branch = "EVALUATING"

\* One round of a node whose aggregator is ReactiveAggregator.
ReactiveRun ==
    \E models \in ModelSets, sinkOk1 \in BOOLEAN, sub \in SubOutcomes :
      \E rep \in ReputationOutcomes(models) :
        LET r == ReactiveAggregator_run_aggregation(
                     default_aggregator, models, rep, sinkOk1, sub)
        IN  /\ agg_call' = [entry |-> "reactive", models |-> models, rep |-> rep,
                            sinkOk1 |-> sinkOk1, sub |-> sub]
            /\ agg_trace' = r.trace
            /\ agg_result' = r.result
            /\ agg_branch' = r.branch
            /\ UNCHANGED <<default_aggregator, selVars>>

\* One round of a node whose aggregator is DynamicAggregator itself.
DynamicRun ==
    \E models \in ModelSets, sub \in SubOutcomes :
        LET d == DynamicAggregator_run_aggregation(
                     models, FALSE, sub.chosen,
                     IF sub.sinkOk THEN "ok" ELSE "raises", sub.stratOk)
        IN  /\ agg_call' = [NoCall EXCEPT !.entry = "dynamic", !.models = models, !.sub = sub]
            /\ agg_trace' = d.trace
            /\ agg_result' = d.result
            /\ agg_branch' = "EVALUATING"
            /\ UNCHANGED <<default_aggregator, selVars>>

---------------------------------------------------------------------------
(* The neighbour selector.                                                 *)

\* node.addr, the address of the node that selects.
SelfAddr == "self"

Peers == {"p1", "p2", "p3"}

\* The addresses a neighbour list may hold: the peers and, when the transport
\* lists the node among its own connections, the node itself.
NeighborIds == Peers \cup {SelfAddr}

MIN_AMOUNT_OF_SELECTED_NEIGHBORS == 1

\* MAX_PERCENT_SELECTABLE_NEIGHBORS = 0.8, as the fraction 8 / 10.
MAX_PERCENT_NUM == 8
MAX_PERCENT_DEN == 10

\* The weight of the age row in FEATURE_WEIGHTS (its last entry, 3.0).
FEATURE_WEIGHT_AGE == 3

\* features[neighbor]["availability"]: 0 (unavailable) or 1 (available).
Availabilities == {0, 1}

Range(seq) == {seq[i] : i \in DOMAIN seq}

Max(a, b) == IF a >= b THEN a ELSE b

RECURSIVE SumOver(_, _)
SumOver(f, S) ==
    IF S = {} THEN 0
    ELSE LET x == CHOOSE y \in S : TRUE IN f[x] + SumOver(f, S \ {x})

num_selected_NoMin(n) == (n * MAX_PERCENT_NUM) \div MAX_PERCENT_DEN

\* Lines 53-56: max(MIN_AMOUNT_OF_SELECTED_NEIGHBORS, floor(len(neighbors) * 0.8)).
num_selected(n) ==
    Max(MIN_AMOUNT_OF_SELECTED_NEIGHBORS, (n * MAX_PERCENT_NUM) \div MAX_PERCENT_DEN)

FirstSighting_AllIds(neighbors, a) ==
    [n \in DOMAIN a \cup NeighborIds |-> IF n \in DOMAIN a THEN a[n] ELSE 1]

\* Lines 62-63: a neighbour with no age yet gets age 1.
FirstSighting(neighbors, a) ==
    [n \in DOMAIN a \cup Range(neighbors) |-> IF n \in DOMAIN a THEN a[n] ELSE 1]

\* Lines 85-98: the final score of a neighbour, as far as its sign goes.  A
\* score is the sum over the seven feature rows of weight * value / (L1 norm
\* of the row); every term is >= 0 and the age term, weight 3 times an age
\* >= 1 over the sum of the ages, is > 0.  The score is kept as its age term
\* times the sum of the ages, and multiplied by the availability (line 98).
final_score(n, neighbors, feats, a) ==
    (FEATURE_WEIGHT_AGE * a[n]) * feats[n]

\* Line 101: normalize([final_scores], norm = 'l1') divides by the sum of the
\* scores, and leaves a row whose sum is 0 as it is: all zeros.
\* p is kept as numerators over PNorm.
PNorm(neighbors, feats, a) ==
    LET total == SumOver([n \in Range(neighbors) |-> final_score(n, neighbors, feats, a)],
                         Range(neighbors))
    IN  IF total = 0 THEN 1 ELSE total

\* The neighbours whose probability is not zero.
NonZeroP(neighbors, feats, a) ==
    {n \in Range(neighbors) : final_score(n, neighbors, feats, a) # 0}

\* The sum of p, times PNorm: np.random.choice wants it to be PNorm (p sums to 1).
PSum(neighbors, feats, a) ==
    SumOver([n \in Range(neighbors) |-> final_score(n, neighbors, feats, a)], Range(neighbors))

\* The sequences of k distinct members of S.
OrderedSamples(S, k) ==
    {q \in [1..k -> S] : \A i, j \in 1..k : i # j => q[i] # q[j]}

\* Lines 106-108: np.random.choice(neighbors, num_selected, replace = False, p).
\* It raises ValueError when p does not sum to 1 and when p has fewer non-zero
\* entries than num_selected; otherwise it may draw any num_selected distinct
\* neighbours of non-zero probability, in any order.
ChoiceRaises(neighbors, feats, a) ==
    \/ PSum(neighbors, feats, a) # PNorm(neighbors, feats, a)
    \/ Cardinality(NonZeroP(neighbors, feats, a)) < num_selected(Len(neighbors))

ChoiceDraws(neighbors, feats, a) ==
    IF ChoiceRaises(neighbors, feats, a) THEN {}
    ELSE OrderedSamples(NonZeroP(neighbors, feats, a), num_selected(Len(neighbors)))

\* Line 116: the increment of the age of a neighbour that was not drawn.
AgeStep == 2

UpdateAges_Everyone(neighbors, a, drawn) ==
    [n \in DOMAIN a |-> a[n] + AgeStep]

\* Lines 114-116: every neighbour of the list that was not drawn ages.
UpdateAges(neighbors, a, drawn) ==
    [n \in DOMAIN a |->
        IF n \in Range(neighbors) /\ n \notin Range(drawn) THEN a[n] + AgeStep ELSE a[n]]

NoNeighbors_Nothing(addr) == <<>>

\* Line 50: the selection of a node without neighbours.
NoNeighbors(addr) == <<addr>>

\* Line 119: selected_nodes + [node.addr].
WithOwnNode(drawn, addr) == drawn \o <<addr>>

\* PrioritySelector.node_selection(node), given what np.random.choice drew
\* (drawn; "raise" when it raised).  The result holds the new ages, the new
\* self.selected_nodes, the log records and what the call returned or raised.
PrioritySelector_node_selection(addr, neighbors, feats, a, sel, drawn) ==
    IF Len(neighbors) = 0
    THEN [ages |-> a,
          selected_nodes |-> NoNeighbors(addr),
          trace |-> <<"logging.error">>,
          result |-> Returned("node_selection", NoNeighbors(addr))]
    ELSE LET a1 == FirstSighting(neighbors, a)
         IN  IF ChoiceRaises(neighbors, feats, a1)
             THEN [ages |-> a1,
                   selected_nodes |-> sel,
                   trace |-> <<"logging.info">>,
                   result |-> Raised("ValueError", "np.random.choice")]
             ELSE [ages |-> UpdateAges(neighbors, a1, drawn),
                   selected_nodes |-> WithOwnNode(drawn, addr),
                   trace |-> <<"logging.info", "logging.info">>,
                   result |-> Returned("node_selection", WithOwnNode(drawn, addr))]

SelIdle ==
    /\ neighbors_list = <<>>
    /\ features = <<>>
    /\ ages = <<>>
    /\ selected_nodes = <<>>
    /\ sel_trace = <<>>
    /\ sel_result = NoResult

\* The order in which the transport lists addresses.  node_selection does not
\* depend on the order of the list: it iterates over it, tests membership in
\* it, and hands np.random.choice the population and p in the same order, and
\* the sample comes back in any order; so one order per set of neighbours is
\* enough.
AddrOrder == <<"p1", "p2", "p3", "self">>

ListOf(S) == SelectSeq(AddrOrder, LAMBDA x : x \in S)

\* The transport reports a new connection; the telemetry has its snapshot.
NeighborJoins ==
    \E n \in NeighborIds \ Range(neighbors_list), av \in Availabilities :
        /\ neighbors_list' = ListOf(Range(neighbors_list) \cup {n})
        /\ features' = [m \in DOMAIN features \cup {n} |-> IF m = n THEN av ELSE features[m]]
        /\ sel_trace' = <<>>
        /\ sel_result' = NoResult
        /\ UNCHANGED <<ages, selected_nodes, aggVars>>

\* The transport reports a connection lost.
NeighborLeaves ==
    \E i \in DOMAIN neighbors_list :
        /\ neighbors_list' = ListOf(Range(neighbors_list) \ {neighbors_list[i]})
        /\ features' = [m \in DOMAIN features \ {neighbors_list[i]} |-> features[m]]
        /\ sel_trace' = <<>>
        /\ sel_result' = NoResult
        /\ UNCHANGED <<ages, selected_nodes, aggVars>>

\* The telemetry refreshes the snapshot of a neighbour.
TelemetryRefresh ==
    \E n \in Range(neighbors_list), av \in Availabilities :
        /\ features[n] # av
        /\ features' = [features EXCEPT ![n] = av]
        /\ sel_trace' = <<>>
        /\ sel_result' = NoResult
        /\ UNCHANGED <<neighbors_list, ages, selected_nodes, aggVars>>

\* One call of node_selection(node).
NodeSelection ==
    /\ \A n \in DOMAIN ages : ages[n] <= MaxAge
    /\ LET a1 == FirstSighting(neighbors_list, ages)
           draws == IF Len(neighbors_list) = 0 \/ ChoiceRaises(neighbors_list, features, a1)
                    THEN {<<>>}
                    ELSE ChoiceDraws(neighbors_list, features, a1)
       IN  \E drawn \in draws :
             LET r == PrioritySelector_node_selection(
                          SelfAddr, neighbors_list, features, ages, selected_nodes, drawn)
             IN  /\ ages' = r.ages
                 /\ selected_nodes' = r.selected_nodes
                 /\ sel_trace' = r.trace
                 /\ sel_result' = r.result
                 /\ UNCHANGED <<neighbors_list, features, aggVars>>

---------------------------------------------------------------------------
(* Specifications.                                                         *)

\* The aggregation rounds of one node, under any configured default name.
InitAgg ==
    /\ default_aggregator \in ConfigNames
    /\ AggIdle
    /\ SelIdle

NextAgg == ReactiveRun \/ DynamicRun

SpecAgg == InitAgg /\ [][NextAgg]_vars

\* The selection rounds of one node, as its neighbourhood and telemetry change.
InitSel ==
    /\ default_aggregator = "FedAvg"
    /\ AggIdle
    /\ SelIdle

NextSel == NeighborJoins \/ NeighborLeaves \/ TelemetryRefresh \/ NodeSelection

SpecSel == InitSel /\ [][NextSel]_vars

---------------------------------------------------------------------------
(* What the last aggregation call did, read off its trace.                 *)

AggEvents(kind) == {i \in DOMAIN agg_trace : agg_trace[i].kind = kind}

\* ReactiveAggregator read ALGORITHM_MAP for some name.
RegistryLookedUp == AggEvents("lookup") # {}

\* The classes ReactiveAggregator instantiated itself.
InstantiatedByReactive ==
    {agg_trace[i].what : i \in {j \in AggEvents("new") : agg_trace[j].who = "ReactiveAggregator"}}

\* DynamicAggregator.run_aggregation was entered.
DynamicInvoked ==
    \E i \in AggEvents("super") : agg_trace[i].who = "DynamicAggregator"

\* The strategy classes whose run_aggregation ran, with the update set each got.
Executed == {<<agg_trace[i].who, agg_trace[i].arg>> : i \in AggEvents("run_aggregation")}

\* The strategy classes DynamicAggregator instantiated.
InstantiatedByDynamic ==
    {agg_trace[i].what : i \in {j \in AggEvents("new") : agg_trace[j].who = "DynamicAggregator"}}

ErrorRecords ==
    {agg_trace[i].what : i \in AggEvents("logging.error")}

ReactiveCall == agg_call.entry = "reactive"

\* The reputation collaborator returned, and flagged somebody.
MaliciousRound == ReactiveCall /\ agg_call.rep.ok /\ agg_call.rep.malicious # {}

\* The reputation collaborator returned, and flagged nobody.
CleanRound == ReactiveCall /\ agg_call.rep.ok /\ agg_call.rep.malicious = {}

\* ReactiveAggregator's own log_text call (line 17 or line 24) was reached and raised.
ReactiveSinkRaised ==
    /\ agg_result.status = "raised"
    /\ agg_result.by = "ReactiveAggregator"
    /\ agg_result.value = "LogTextError"

\* The call ended with the exception exc.
EndedRaising(exc) == agg_result.status = "raised" /\ agg_result.value = exc

\* The call returned what the strategy cls made of the update set models.
EndedReturning(cls, models) ==
    /\ agg_result.status = "returned"
    /\ agg_result.by = cls
    /\ agg_result.value = models

---------------------------------------------------------------------------
(* Claims about the aggregation dispatchers.                               *)

\* C1: in every round in which reputation_calculation returns a non-empty set
\* of malicious nodes, ReactiveAggregator goes to UNDER_ATTACK and never takes
\* the default branch: it reads no name from ALGORITHM_MAP and instantiates
\* nothing but DynamicAggregator; once its record of the flagged nodes is
\* written (line 17), DynamicAggregator.run_aggregation is entered, and every
\* strategy that runs was drawn and built by DynamicAggregator.  This is a
\* property of every reachable state, so of every round after any history.
C1_MaliciousRoutesToDynamic ==
    MaliciousRound =>
        /\ agg_branch = "UNDER_ATTACK"
        /\ ~RegistryLookedUp
        /\ InstantiatedByReactive \subseteq {"DynamicAggregator"}
        /\ (~ReactiveSinkRaised => /\ DynamicInvoked
                                    /\ InstantiatedByReactive = {"DynamicAggregator"})
        /\ \A e \in Executed : /\ e[1] \in InstantiatedByDynamic
                                /\ e[1] = agg_call.sub.chosen

\* C1 witness: a round with flagged nodes, under a configured default that is
\* registered, in which the strategy DynamicAggregator drew ran and returned.
C1_Witness ==
    /\ MaliciousRound
    /\ default_aggregator = "Krum"
    /\ DynamicInvoked
    /\ agg_call.sub.chosen = "Median"
    /\ Executed = {<<"Median", agg_call.models>>}
    /\ agg_result.status = "returned"

\* C2: in every round in which reputation_calculation returns an empty set and
\* the configured default is FedAvg (the spec's Average), DynamicAggregator is
\* not invoked, and once the "None" record is written (line 24) FedAvg, built
\* by ReactiveAggregator, runs on the update set the round was given, and
\* nothing else runs.
C2_CleanRunsAverage ==
    (CleanRound /\ default_aggregator = "FedAvg") =>
        /\ agg_branch = "CLEAN"
        /\ ~DynamicInvoked
        /\ InstantiatedByDynamic = {}
        /\ Executed \subseteq {<<"FedAvg", agg_call.models>>}
        /\ (~ReactiveSinkRaised => /\ Executed = {<<"FedAvg", agg_call.models>>}
                                    /\ InstantiatedByReactive = {"FedAvg"}
                                    /\ agg_result.by = "FedAvg")

\* C2 witness: a clean round under the default FedAvg that returned FedAvg's
\* combination of a two-node update set.
C2_Witness ==
    /\ CleanRound
    /\ default_aggregator = "FedAvg"
    /\ DOMAIN agg_call.models = Nodes
    /\ EndedReturning("FedAvg", agg_call.models)

\* C3: in a clean round whose configured default is no key of ALGORITHM_MAP,
\* once the "None" record is written (line 24) an error record is logged,
\* FedAvg runs on the update set, and the round ends as FedAvg ends: no
\* exception comes from the unknown name.
C3_UnknownDefaultFallsBack ==
    (CleanRound /\ default_aggregator \notin ALGORITHM_MAP) =>
        /\ ~EndedRaising("KeyError")
        /\ (~ReactiveSinkRaised => /\ "Invalid default aggregator" \in ErrorRecords
                                    /\ Executed = {<<"FedAvg", agg_call.models>>}
                                    /\ InstantiatedByReactive = {"FedAvg"}
                                    /\ agg_result.by = "FedAvg")

\* C3 witness: a clean round under the unregistered default "NoSuchAggregator"
\* that logged the error and returned FedAvg's combination.
C3_Witness ==
    /\ CleanRound
    /\ default_aggregator = "NoSuchAggregator"
    /\ "Invalid default aggregator" \in ErrorRecords
    /\ EndedReturning("FedAvg", agg_call.models)

\* C4 (as claimed): when reputation_calculation raises, the round is handled
\* fail-closed: DynamicAggregator is invoked as if malicious nodes were
\* present, the failure is logged, and the collaborator's exception does not
\* end the round.
C4_ReputationFailureFailsClosed ==
    (ReactiveCall /\ ~agg_call.rep.ok) =>
        /\ DynamicInvoked
        /\ ErrorRecords # {}
        /\ ~EndedRaising("ReputationError")

\* C10 (as claimed): in every aggregation call that gets past the reputation
\* collaborator, whether or not a log_text call raises, the call delegates to
\* a strategy and ends as that strategy ends, never with the sink's exception.
C10_SinkFailureDoesNotFailRound ==
    (agg_call.entry = "dynamic" \/ (ReactiveCall /\ agg_call.rep.ok
                                      /\ default_aggregator # "DynamicAggregator")) =>
        /\ ~EndedRaising("LogTextError")
        /\ Executed # {}

---------------------------------------------------------------------------
(* What the node_selection call just made did.                             *)

SelCalled == sel_result.status # "none"

SelReturned == sel_result.status = "returned"

SelRaised == sel_result.status = "raised"

\* The neighbours the returned selection holds before the node's own address,
\* which the call appends last: the ones np.random.choice drew.
DrawnOf(result) == SubSeq(result.value, 1, Len(result.value) - 1)

NoDuplicates(seq) == \A i, j \in DOMAIN seq : i # j => seq[i] # seq[j]

\* ceil(n * 0.8)
CeilFraction(n) == (n * 8 + 9) \div 10

AllUnavailable == \A n \in Range(neighbors_list) : features[n] = 0

---------------------------------------------------------------------------
(* Claims about the neighbour selector.                                    *)

\* C5 (as claimed): every selection node_selection returns, for every
\* neighbour list, the empty one included, has
\* MIN_SELECTED <= |selection| - 1 <= ceil(|neighbors| * 0.8).
C5_SizeBoundsEveryList ==
    SelReturned =>
        /\ 1 <= Len(sel_result.value) - 1
        /\ Len(sel_result.value) - 1 <= CeilFraction(Len(neighbors_list))

\* C5 (amended): every selection node_selection returns for a non-empty
\* neighbour list has 1 <= |selection| - 1 <= ceil(|neighbors| * 0.8); for
\* the empty list the selection is the node alone, |selection| - 1 = 0.
C5_SizeBounds ==
    SelReturned =>
        IF Len(neighbors_list) = 0
        THEN Len(sel_result.value) - 1 = 0
        ELSE /\ 1 <= Len(sel_result.value) - 1
             /\ Len(sel_result.value) - 1 <= CeilFraction(Len(neighbors_list))
             /\ Len(sel_result.value) - 1 <= Len(neighbors_list)

\* C5 witness: a selection returned for three neighbours, two of them drawn,
\* where floor(3 * 0.8) = 2 and ceil(3 * 0.8) = 3 differ.
C5_Witness ==
    /\ SelReturned
    /\ Len(neighbors_list) = 3
    /\ Len(sel_result.value) = 3

\* C6 (as claimed): every selection node_selection returns holds the node's
\* own address and holds no address twice, also when the node's own address
\* is in the neighbour list.
C6_SelfOnceNoDuplicates ==
    SelReturned =>
        /\ SelfAddr \in Range(sel_result.value)
        /\ NoDuplicates(sel_result.value)

C8_AllUnavailableStillSelects ==
    (SelCalled /\ Len(neighbors_list) > 0 /\ AllUnavailable) =>
        /\ SelReturned
        /\ Len(sel_result.value) >= 2
        /\ NoDuplicates(DrawnOf(sel_result))
        /\ Range(DrawnOf(sel_result)) \subseteq Range(neighbors_list)

\* C9: a call of node_selection with an empty neighbour list logs an error,
\* returns the selection [node.addr], stores it as selected_nodes, and does
\* not raise.
C9_NoNeighborsSelfOnly ==
    (SelCalled /\ Len(neighbors_list) = 0) =>
        /\ SelReturned
        /\ sel_result.value = <<SelfAddr>>
        /\ selected_nodes = <<SelfAddr>>
        /\ \E i \in DOMAIN sel_trace : sel_trace[i] = "logging.error"

\* C9 witness: a call with an empty list, made after earlier selections gave
\* ages to neighbours that have since left, returned the node alone.
C9_Witness ==
    /\ SelReturned
    /\ Len(neighbors_list) = 0
    /\ DOMAIN ages # {}
    /\ sel_result.value = <<SelfAddr>>

---------------------------------------------------------------------------
(* Claims about what the dispatchers and the selector draw and pass on.    *)

\* What random.choice drew in the DynamicAggregator call.
Drawn == {agg_trace[i].arg : i \in AggEvents("random.choice")}

\* DynamicAggregator's record of the chosen strategy was written: its
\* log_text call (line 27 or 29 of dynamicAggregator.py) returned.
DynamicSinkWritten ==
    \E i \in AggEvents("log_text") : agg_trace[i].who = "DynamicAggregator"

\* C11: in every invocation of DynamicAggregator.run_aggregation, standalone
\* or from ReactiveAggregator, exactly one class is drawn and it is one of
\* FedAvg, Krum, Median, TrimmedMean, Bulyan; nothing but the drawn class
\* runs, and once the record of the choice is written the drawn class is
\* built and run on the update set and the call ends as that run ends: with
\* its combination when it returns, with its own error when it raises.
\* In every reachable state, so after any history of draws, a next
\* invocation can draw each of the five.
C11_OneOfFiveAnyTime ==
    /\ DynamicInvoked =>
          /\ Cardinality(AggEvents("random.choice")) = 1
          /\ Drawn \subseteq {"FedAvg", "Krum", "Median", "TrimmedMean", "Bulyan"}
          /\ Executed \subseteq {<<c, agg_call.models>> : c \in Drawn}
          /\ DynamicSinkWritten =>
                /\ Executed = {<<c, agg_call.models>> : c \in Drawn}
                /\ InstantiatedByDynamic = Drawn
                /\ \A c \in Drawn :
                      IF agg_call.sub.stratOk
                      THEN EndedReturning(c, agg_call.models)
                      ELSE /\ EndedRaising("StrategyError")
                           /\ agg_result.by = c
    /\ \A c \in {"FedAvg", "Krum", "Median", "TrimmedMean", "Bulyan"} :
          ENABLED (DynamicRun /\ agg_call'.sub.chosen = c
                              /\ agg_result'.status = "returned"
                              /\ agg_result'.by = c)

\* C11 witness: a standalone invocation that drew Bulyan, right after which
\* Bulyan's own error is what the call raised.
C11_Witness ==
    /\ agg_call.entry = "dynamic"
    /\ Drawn = {"Bulyan"}
    /\ Executed = {<<"Bulyan", agg_call.models>>}
    /\ EndedRaising("StrategyError")
    /\ agg_result.by = "Bulyan"

\* The update sets DynamicAggregator.run_aggregation was entered with.
HandedToDynamic ==
    {agg_trace[i].arg : i \in {j \in AggEvents("super") : agg_trace[j].who = "DynamicAggregator"}}

\* The update sets the strategies were run on.
HandedToStrategy == {agg_trace[i].arg : i \in AggEvents("run_aggregation")}

\* C13: in every round in which reputation_calculation flags some node, the
\* update set DynamicAggregator.run_aggregation is entered with, and the
\* update set the chosen strategy is run on, is the update set the round was
\* given: the same nodes, the flagged ones among them, each with its update.
C13_WholeUpdateSetDelegated ==
    MaliciousRound =>
        /\ HandedToDynamic \subseteq {agg_call.models}
        /\ HandedToStrategy \subseteq {agg_call.models}
        /\ \A m \in HandedToDynamic \cup HandedToStrategy :
              /\ DOMAIN m = DOMAIN agg_call.models
              /\ agg_call.rep.malicious \subseteq DOMAIN m
        /\ ~ReactiveSinkRaised => HandedToDynamic = {agg_call.models}
        /\ DynamicSinkWritten => HandedToStrategy = {agg_call.models}

\* C13 witness: a round over the updates of n1 and n2 in which n2 is flagged
\* and Krum, drawn by DynamicAggregator, ran on both updates and returned.
C13_Witness ==
    /\ MaliciousRound
    /\ agg_call.rep.malicious = {"n2"}
    /\ DOMAIN agg_call.models = {"n1", "n2"}
    /\ HandedToDynamic = {agg_call.models}
    /\ Executed = {<<"Krum", agg_call.models>>}
    /\ agg_result.status = "returned"

\* C12 (as claimed): a call of node_selection with a non-empty neighbour list
\* whose availabilities are not all 0, some of them possibly 0, does not
\* raise: it returns max(1, floor(0.8 * |neighbors|)) distinct neighbours of
\* the list and the node itself.
C12_ZeroAvailabilityNeverFailsDraw ==
    (SelCalled /\ Len(neighbors_list) > 0 /\ ~AllUnavailable) =>
        /\ SelReturned
        /\ Len(DrawnOf(sel_result)) = Max(1, (Len(neighbors_list) * 8) \div 10)
        /\ NoDuplicates(DrawnOf(sel_result))
        /\ Range(DrawnOf(sel_result)) \subseteq Range(neighbors_list)
        /\ sel_result.value[Len(sel_result.value)] = SelfAddr

\* C14: a call of node_selection leaves neighbors_list and features as they
\* were; every neighbour that has an age and is not in the call's list keeps
\* it; only addresses of the list get an age; and a call with an empty list
\* leaves the ages as they were.
C14_SelectFrame ==
    [][(sel_result'.status # "none") =>
          /\ neighbors_list' = neighbors_list
          /\ features' = features
          /\ \A n \in DOMAIN ages \ Range(neighbors_list) :
                n \in DOMAIN ages' /\ ages'[n] = ages[n]
          /\ DOMAIN ages' \ DOMAIN ages \subseteq Range(neighbors_list)
          /\ (Len(neighbors_list) = 0) => ages' = ages]_vars

\* C14 witness: after a returned selection over a non-empty list, a neighbour
\* that has left the list still has the age 1 it had, while a listed
\* neighbour that was not drawn has aged to 3.
C14_Witness ==
    /\ SelReturned
    /\ Len(neighbors_list) > 0
    /\ \E n \in DOMAIN ages \ Range(neighbors_list) : ages[n] = 1
    /\ \E n \in Range(neighbors_list) \ Range(DrawnOf(sel_result)) : ages[n] = 3

====
